---- MODULE Spec2Model ----
(***************************************************************************)
(* Multi-port memories built from one-read/one-write amaranth memories:    *)
(* MultiReadMemory (one writer, R readers) and MultiportXORMemory          *)
(* (W writers, R readers), transactron/utils/amaranth_ext/memory.py.       *)
(*                                                                         *)
(*   Spec      the construction API of both classes: read_port,            *)
(*             write_port, elaborate.                                      *)
(*   SpecRead  the clocked behaviour of an elaborated MultiReadMemory.     *)
(*   SpecXor   the clocked behaviour of an elaborated MultiportXORMemory.  *)
(*                                                                         *)
(* Python lists are indexed from 0; the sequences below are indexed from   *)
(* 1, so list element p is sequence element p + 1.  Ports are referred to  *)
(* by their list index.                                                    *)
(***************************************************************************)
EXTENDS Integers, Sequences, FiniteSets, TLC

\* ------------------------------------------------------------------ bounds
\* Largest number of read ports and write ports requested from one memory.
MaxReadPorts == 2
MaxWritePorts == 3
\* Largest number of elaborate() calls made on one memory.
MaxBuilds == 2
\* Largest depth a memory is constructed with.
MaxDepth == 4
\* The simulated memories: rows, bits per row, read ports of a MultiReadMemory,
\* write and read ports of a MultiportXORMemory, clock cycles.
SimDepth == 2
DataWidth == 1
SimReaders == 2
XorWriters == 2
XorReaders == 1
MaxTicks == 4
\* Clock cycles simulated of a MultiportXORMemory.
XorTicks == 3
\* Width of ClickIn's dat (the default layout) and clock cycles simulated of it.
ClickWidth == 1
ClickTicks == 5

VARIABLES
    kind,         \* which class the object is: "MultiReadMemory" | "MultiportXORMemory"
    depth,        \* self._depth
    init,         \* self._init, the initial content of every row
    read_ports,   \* self._read_ports
    write_ports,  \* self._write_ports
    frozen,       \* self._frozen
    call,         \* the method called last
    result,       \* how it ended: "ok" or the name of the exception raised
    serial,       \* how many port objects have been created (object identity)
    topo,         \* the submodules and wiring the last elaborate() produced
    nbuilds,      \* how many times elaborate() has run
    cells,        \* content of every amaranth memory, by memory name
    regs,         \* registered data output of every physical read port
    ticks,        \* clock cycles simulated
    ref,          \* history: for each address, the value last committed (<<>> if none)
    expect,       \* history: for each reader, ref at the address it sampled last
    clean,        \* history: no two writers committed to one address in one cycle
    committers,   \* history: the writers that have committed at least once
    lastw,        \* history: the writers' inputs in the last cycle
    prevw,        \* history: the writers' inputs in the cycle before the last
    lastr,        \* history: the readers' inputs in the last cycle
    btn1,         \* ClickIn: first synchronizer stage of btn
    btn2,         \* ClickIn: second synchronizer stage of btn
    dat1,         \* ClickIn: dat registered together with btn1
    get_ready,    \* ClickIn: the ready signal of method get
    get_data,     \* ClickIn: the value method get returns
    hist          \* history: per cycle, what ClickIn saw and whether get ran

vars == <<kind, depth, init, read_ports, write_ports, frozen, call, result, serial,
          topo, nbuilds, cells, regs, ticks, ref, expect, clean, committers,
          lastw, prevw, lastr, btn1, btn2, dat1, get_ready, get_data, hist>>

objvars == <<kind, depth, init>>
simvars == <<cells, regs, ticks, ref, expect, clean, committers, lastw, prevw, lastr>>
clickvars == <<btn1, btn2, dat1, get_ready, get_data, hist>>

MRM == "MultiReadMemory"
XOR == "MultiportXORMemory"

\* ------------------------------------------------------- amaranth.utils
\* int.bit_length of n >= 0.
RECURSIVE bit_length(_)
bit_length(n) == IF n = 0 THEN 0 ELSE 1 + bit_length(n \div 2)

\* ceil_log2(n): 0 for n = 0, else (n - 1).bit_length().
ceil_log2(n) == IF n = 0 THEN 0 ELSE bit_length(n - 1)

\* bits_for(n): the bits needed to represent n (a sign bit when n <= 0).
bits_for(n) == IF n > 0 THEN ceil_log2(n + 1) ELSE ceil_log2(0 - n) + 1

\* --------------------------------------------------- ReadPort / WritePort
\* The object ReadPort.__init__ builds; id is the object's identity.
ReadPort(id, d) == [id |-> id, depth |-> d, addr_width |-> bits_for(d - 1)]

\* The object WritePort.__init__ builds.
WritePort(id, d) == [id |-> id, depth |-> d, addr_width |-> bits_for(d - 1)]

\* ------------------------------------------------------- port requests
ReadPortCheckNoFreeze(frz) == "ok"

\* The exception read_port raises, "ok" when it raises none.
ReadPortCheck(frz) == IF frz THEN "AlreadyElaborated" ELSE "ok"

MRMWritePortCheckNoLimit(frz, wports) == IF frz THEN "AlreadyElaborated" ELSE "ok"

\* The exception MultiReadMemory.write_port raises, "ok" when it raises none.
MRMWritePortCheck(frz, wports) ==
    IF frz THEN "AlreadyElaborated"
    ELSE IF wports # << >> THEN "MultipleWritePorts"
    ELSE "ok"

\* The exception MultiportXORMemory.write_port raises, "ok" when it raises none.
XORWritePortCheck(frz, wports) == IF frz THEN "AlreadyElaborated" ELSE "ok"

WritePortCheck(k, frz, wports) ==
    IF k = MRM THEN MRMWritePortCheck(frz, wports) ELSE XORWritePortCheck(frz, wports)

read_port_first ==
    /\ call' = "read_port"
    /\ result' = ReadPortCheck(frozen)
    /\ IF result' = "ok"
       THEN /\ Len(read_ports) < MaxReadPorts
            /\ read_ports' = <<ReadPort(serial, depth)>> \o read_ports
            /\ serial' = serial + 1
       ELSE UNCHANGED <<read_ports, serial>>
    /\ UNCHANGED <<write_ports, frozen, topo, nbuilds>>
    /\ UNCHANGED objvars
    /\ UNCHANGED clickvars
    /\ UNCHANGED simvars

\* read_port() of either class.
read_port ==
    /\ call' = "read_port"
    /\ result' = ReadPortCheck(frozen)
    /\ IF result' = "ok"
       THEN /\ Len(read_ports) < MaxReadPorts
            /\ read_ports' = Append(read_ports, ReadPort(serial, depth))
            /\ serial' = serial + 1
       ELSE UNCHANGED <<read_ports, serial>>
    /\ UNCHANGED <<write_ports, frozen, topo, nbuilds>>
    /\ UNCHANGED objvars
    /\ UNCHANGED clickvars
    /\ UNCHANGED simvars

\* write_port() of either class.
write_port ==
    /\ call' = "write_port"
    /\ result' = WritePortCheck(kind, frozen, write_ports)
    /\ IF result' = "ok"
       THEN /\ Len(write_ports) < MaxWritePorts
            /\ write_ports' = Append(write_ports, WritePort(serial, depth))
            /\ serial' = serial + 1
       ELSE UNCHANGED <<write_ports, serial>>
    /\ UNCHANGED <<read_ports, frozen, topo, nbuilds>>
    /\ UNCHANGED objvars
    /\ UNCHANGED clickvars
    /\ UNCHANGED simvars

\* ------------------------------------------- MultiReadMemory.elaborate
MRMElaborateNoWriter(rports, wports) ==
    [k \in 1..Len(rports) |->
        [raddr |-> k - 1, ren |-> k - 1, rdata |-> k - 1,
         waddr |-> 0, wdata |-> 0, wen |-> 0]]

MRMElaborateOneBank(rports, wports) ==
    IF wports # << >> /\ rports # << >>
    THEN <<[raddr |-> 0, ren |-> 0, rdata |-> 0, waddr |-> 0, wdata |-> 0, wen |-> 0]>>
    ELSE << >>

\* The memories MultiReadMemory.elaborate instantiates and how it wires them:
\* one amaranth memory per read port, none when there is no write port.  Bank
\* k reads for read port k and is written by write_ports[0].
MRMElaborate(rports, wports) ==
    IF wports # << >>
    THEN [k \in 1..Len(rports) |->
            [raddr |-> k - 1, ren |-> k - 1, rdata |-> k - 1,
             waddr |-> 0, wdata |-> 0, wen |-> 0]]
    ELSE << >>

\* ---------------------------------------- MultiportXORMemory.elaborate
\* The operands of the XOR expressions elaborate builds: the undriven Signal
\* write_xors / read_xors starts from, a write port's data, the data output of
\* relay memory_{a}_{b}, the data output of read port b of read_block_{a}.
SigTerm(j) == [t |-> "sig", a |-> j, b |-> 0]
DataTerm(j) == [t |-> "data", a |-> j, b |-> 0]
RelayTerm(index, i) == [t |-> "relay", a |-> index, b |-> i]
RepTerm(index, k) == [t |-> "rep", a |-> index, b |-> k]

\* x ^ y on expressions held as the set of their operands.
XorExpr(x, y) == (x \ y) \cup (y \ x)

RelayIdxLate(index, i) == IF i > index THEN i + 1 ELSE i

\* idx of the inner loop: i, or i + 1 once i has reached index.
RelayIdx(index, i) == IF i >= index THEN i + 1 ELSE i

RelayCountAll(W) == W

\* How many relay memories the inner loop creates for one write port.
RelayCount(W) == W - 1

\* The inner loop, from iteration i on: st.write_xors is the list of
\* expressions, st.relays the memories created so far.
RECURSIVE RelayLoop(_, _, _, _)
RelayLoop(index, i, W, st) ==
    IF i >= RelayCount(W) THEN st
    ELSE LET idx == RelayIdx(index, i)
             wx == [st.write_xors EXCEPT
                       ![idx] = XorExpr({RelayTerm(index, i)}, @)]
             mem == [name |-> <<index, i>>,
                     waddr |-> index, wdata |-> wx[index], wen |-> index,
                     raddr |-> idx]
         IN RelayLoop(index, i + 1, W,
                      [st EXCEPT !.write_xors = wx, !.relays = Append(@, mem)])

\* The read_block of write port index: a MultiReadMemory with one write port
\* and one read port per logical read port; its memories come from its own
\* elaborate.
ReadBlock(index, R, d, wx) ==
    LET r_write_port == WritePort(0, d)
        r_read_ports == [k \in 1..R |-> ReadPort(k, d)]
    IN [waddr |-> index, wdata |-> wx, wen |-> index,
        raddr |-> [k \in 1..R |-> k - 1],
        banks |-> MRMElaborate(r_read_ports, <<r_write_port>>)]

RECURSIVE WriteLoopOverwrite(_, _, _, _, _)
WriteLoopOverwrite(index, W, R, d, st) ==
    IF index >= W THEN st
    ELSE LET st0 == [st EXCEPT !.write_xors[index] = XorExpr({DataTerm(index)}, @)]
             st1 == RelayLoop(index, 0, W, st0)
             blk == ReadBlock(index, R, d, st1.write_xors[index])
             rx == [k \in 0..(R - 1) |-> {RepTerm(index, k)}]
         IN WriteLoopOverwrite(index + 1, W, R, d,
                      [st1 EXCEPT !.blocks = Append(@, blk), !.read_xors = rx])

\* The outer loop, from write port index on.
RECURSIVE WriteLoop(_, _, _, _, _)
WriteLoop(index, W, R, d, st) ==
    IF index >= W THEN st
    ELSE LET st0 == [st EXCEPT !.write_xors[index] = XorExpr({DataTerm(index)}, @)]
             st1 == RelayLoop(index, 0, W, st0)
             blk == ReadBlock(index, R, d, st1.write_xors[index])
             rx == [k \in 0..(R - 1) |->
                       XorExpr(st1.read_xors[k], {RepTerm(index, k)})]
         IN WriteLoop(index + 1, W, R, d,
                      [st1 EXCEPT !.blocks = Append(@, blk), !.read_xors = rx])

\* What MultiportXORMemory.elaborate builds for W write ports and R read
\* ports: the relay memories, the read blocks, and the expression driving the
\* data of each logical read port.
XORElaborate(rports, wports, d) ==
    LET W == Len(wports)
        R == Len(rports)
        st == WriteLoop(0, W, R, d,
                  [write_xors |-> [j \in 0..(W - 1) |-> {SigTerm(j)}],
                   read_xors |-> [k \in 0..(R - 1) |-> {SigTerm(W + k)}],
                   relays |-> << >>, blocks |-> << >>])
    IN [addr_width |-> bits_for(d - 1), banks |-> << >>,
        relays |-> st.relays, blocks |-> st.blocks,
        outs |-> [k \in 1..R |-> st.read_xors[k - 1]]]

NoTopo == [addr_width |-> 0, banks |-> << >>, relays |-> << >>,
           blocks |-> << >>, outs |-> << >>]

Elaborate(k, rports, wports, d) ==
    IF k = MRM
    THEN [NoTopo EXCEPT !.banks = MRMElaborate(rports, wports)]
    ELSE XORElaborate(rports, wports, d)

ElaborateCheckOnce(frz) == IF frz THEN "AlreadyElaborated" ELSE "ok"

\* The exception elaborate raises, "ok" when it raises none: there is no guard
\* on _frozen, and no entry of the port lists is ever None.
ElaborateCheck(frz) == "ok"

\* elaborate() of either class.
elaborate ==
    /\ call' = "elaborate"
    /\ result' = ElaborateCheck(frozen)
    /\ IF result' = "ok"
       THEN /\ nbuilds < MaxBuilds
            /\ frozen' = TRUE
            /\ topo' = Elaborate(kind, read_ports, write_ports, depth)
            /\ nbuilds' = nbuilds + 1
       ELSE UNCHANGED <<frozen, topo, nbuilds>>
    /\ UNCHANGED <<read_ports, write_ports, serial>>
    /\ UNCHANGED objvars
    /\ UNCHANGED clickvars
    /\ UNCHANGED simvars

RECURSIVE SumLen(_, _)
SumLen(blocks, n) ==
    IF n = 0 THEN 0 ELSE Len(blocks[n].banks) + SumLen(blocks, n - 1)

\* The number of amaranth memories in a built design.
BankCount(tp) == Len(tp.relays) + Len(tp.banks) + SumLen(tp.blocks, Len(tp.blocks))

\* ------------------------------------------------- construction: Spec
\* The depths a memory is constructed with.  __init__ stores depth unchecked;
\* 0 is the least depth amaranth's Memory accepts when elaborate creates one.
Depths == 0..MaxDepth

\* The exception __init__ raises for depth d, "ok" when it raises none: neither
\* class validates its arguments.
InitCheck(d) == "ok"

NoSim ==
    /\ cells = << >> /\ regs = << >> /\ ticks = 0
    /\ ref = << >> /\ expect = << >> /\ clean = TRUE /\ committers = {}
    /\ lastw = << >> /\ prevw = << >> /\ lastr = << >>

\* The signals of a ClickIn at reset.
NoClick ==
    /\ btn1 = FALSE /\ btn2 = FALSE /\ dat1 = 0
    /\ get_ready = FALSE /\ get_data = 0
    /\ hist = << >>

\* The object __init__ returns.
Init ==
    /\ kind \in {MRM, XOR}
    /\ depth \in Depths
    /\ init = << >>
    /\ read_ports = << >> /\ write_ports = << >> /\ frozen = FALSE
    /\ call = "__init__" /\ result = InitCheck(depth) /\ serial = 0
    /\ topo = NoTopo /\ nbuilds = 0
    /\ NoSim
    /\ NoClick

Next == read_port \/ write_port \/ elaborate

Spec == Init /\ [][Next]_vars

\* ============================================ properties of construction
PortCalls == {"read_port", "write_port"}

\* C4: on both classes, a read_port() or write_port() call made after
\* elaborate raises AlreadyElaborated and leaves read_ports and write_ports as
\* they were; once frozen, a memory stays frozen and both lists never change.
C4_FrozenRejects ==
    [][frozen =>
          /\ frozen' /\ read_ports' = read_ports /\ write_ports' = write_ports
          /\ (call' \in PortCalls => result' = "AlreadyElaborated")]_vars

\* Both kinds of port call have been rejected after elaborate.
C4_Witness ==
    /\ frozen /\ call \in PortCalls /\ result = "AlreadyElaborated"
    /\ read_ports # << >> /\ write_ports # << >>

\* C5, as stated: on MultiReadMemory a write_port() call made when a write
\* port exists always raises MultipleWritePorts.
C5_AlwaysCapacityError ==
    [][(kind = MRM /\ write_ports # << >> /\ call' = "write_port")
          => result' = "MultipleWritePorts"]_vars

\* C5, amended: on MultiReadMemory a write_port() call made when a write port
\* exists fails, with MultipleWritePorts before elaborate and with
\* AlreadyElaborated after it, whatever the number of read ports, and leaves
\* write_ports with its one entry; write_ports never has more than one entry.
C5_SecondWritePortFails ==
    [][kind = MRM =>
          /\ Len(write_ports') <= 1
          /\ (write_ports # << >> /\ call' = "write_port") =>
                /\ result' = (IF frozen THEN "AlreadyElaborated" ELSE "MultipleWritePorts")
                /\ write_ports' = write_ports
                /\ Len(write_ports') = 1]_vars

\* A second write port has been refused on a memory with two read ports.
C5_Witness ==
    /\ kind = MRM /\ call = "write_port" /\ result = "MultipleWritePorts"
    /\ Len(write_ports) = 1 /\ Len(read_ports) = 2

\* C6: a MultiportXORMemory elaborated with W write ports and R read ports
\* holds exactly W * (W - 1 + R) amaranth memories: for each write port W - 1
\* relay memories and the R memories of its read block.
C6_BankCount ==
    (kind = XOR /\ nbuilds >= 1) =>
        LET W == Len(write_ports)
            R == Len(read_ports)
        IN /\ BankCount(topo) = W * (W - 1 + R)
           /\ Len(topo.blocks) = W
           /\ \A index \in 0..(W - 1) :
                 /\ Cardinality({n \in 1..Len(topo.relays) :
                                    topo.relays[n].name[1] = index}) = W - 1
                 /\ Len(topo.blocks[index + 1].banks) = R

\* A design with three write ports and two read ports has been elaborated.
C6_Witness ==
    /\ kind = XOR /\ nbuilds >= 1
    /\ Len(write_ports) = 3 /\ Len(read_ports) = 2 /\ BankCount(topo) = 12

\* C7: a MultiReadMemory elaborated with one write port and R >= 1 read ports
\* holds exactly R memories, and memory k takes its read address and enable
\* from read port k and drives the data of read port k.
C7_OneBankPerReader ==
    (kind = MRM /\ nbuilds >= 1 /\ Len(write_ports) = 1 /\ Len(read_ports) >= 1) =>
        /\ BankCount(topo) = Len(read_ports)
        /\ Len(topo.banks) = Len(read_ports)
        /\ \A k \in 1..Len(topo.banks) :
              /\ topo.banks[k].raddr = k - 1
              /\ topo.banks[k].ren = k - 1
              /\ topo.banks[k].rdata = k - 1

\* A MultiReadMemory with one write port and two read ports has been elaborated.
C7_Witness ==
    /\ kind = MRM /\ nbuilds >= 1 /\ Len(write_ports) = 1 /\ Len(read_ports) = 2
    /\ Len(topo.banks) = 2

\* C8, as stated: every port request made before elaborate succeeds.
C8_EveryCallSucceeds ==
    [][(~frozen /\ call' \in PortCalls) => result' = "ok"]_vars

\* C8, amended: every port request made before elaborate succeeds, except a
\* write_port() on a MultiReadMemory that already has a write port, which
\* raises MultipleWritePorts and changes neither list; a request that succeeds
\* appends the new port at the end of its own list and leaves the other list
\* as it was.
C8_DeclarationOrder ==
    [][~frozen =>
          /\ call' = "read_port" =>
                /\ result' = "ok"
                /\ read_ports' = Append(read_ports, ReadPort(serial, depth))
                /\ write_ports' = write_ports
          /\ (call' = "write_port" /\ ~(kind = MRM /\ write_ports # << >>)) =>
                /\ result' = "ok"
                /\ write_ports' = Append(write_ports, WritePort(serial, depth))
                /\ read_ports' = read_ports
          /\ (call' = "write_port" /\ kind = MRM /\ write_ports # << >>) =>
                /\ result' = "MultipleWritePorts"
                /\ read_ports' = read_ports /\ write_ports' = write_ports]_vars

\* Read and write ports have been requested alternately before elaborate.
C8_Witness ==
    /\ ~frozen /\ call = "read_port" /\ result = "ok"
    /\ Len(read_ports) = 2 /\ Len(write_ports) >= 1
    /\ read_ports[1].id < write_ports[1].id /\ write_ports[1].id < read_ports[2].id

CeilLog2(d) == CHOOSE w \in 0..d : 2 ^ w >= d /\ \A v \in 0..(w - 1) : 2 ^ v < d

\* C10: the address width of every read and write port, and the address
\* width elaborate computes in MultiportXORMemory, is ceil(log2(depth)) for
\* every depth >= 1; it is 0 for depth 1.
C10_AddrWidth ==
    depth >= 1 =>
        /\ \A p \in 1..Len(read_ports) : read_ports[p].addr_width = CeilLog2(depth)
        /\ \A p \in 1..Len(write_ports) : write_ports[p].addr_width = CeilLog2(depth)
        /\ (kind = XOR /\ nbuilds >= 1) => topo.addr_width = CeilLog2(depth)

\* C11: constructing either class with depth <= 0 fails at construction, so
\* every constructed memory, and every port requested from it, has depth > 0.
C11_DepthPositive ==
    /\ (call = "__init__" /\ depth <= 0) => result # "ok"
    /\ (read_ports # << >> \/ write_ports # << >>) => depth > 0
    /\ \A p \in 1..Len(read_ports) : read_ports[p].depth > 0
    /\ \A p \in 1..Len(write_ports) : write_ports[p].depth > 0

\* The relay memories of write port index in a built design.
RelaysOf(tp, index) ==
    {n \in 1..Len(tp.relays) : tp.relays[n].name[1] = index}

\* The relay outputs among the operands of expression e that come from the
\* relay memories of write port j.
RelayTermsFrom(e, j) == {tm \in e : tm.t = "relay" /\ tm.a = j}

\* C12: in a built MultiportXORMemory the value committed for writer i is its
\* raw data XORed with one relay output for each of the W - 1 other writers,
\* and that same value is written to all relay memories of writer i and to its
\* read block.
C12_CombinedValue ==
    (kind = XOR /\ nbuilds >= 1) =>
        \A index \in 0..(Len(write_ports) - 1) :
            LET e == topo.blocks[index + 1].wdata
            IN /\ DataTerm(index) \in e
               /\ \A tm \in e : tm.t = "data" => tm.a = index
               /\ RelayTermsFrom(e, index) = {}
               /\ \A j \in 0..(Len(write_ports) - 1) :
                     j # index => Cardinality(RelayTermsFrom(e, j)) = 1
               /\ \A n \in RelaysOf(topo, index) : topo.relays[n].wdata = e

\* C13: in a built MultiportXORMemory the W - 1 relay memories of writer i
\* are written at writer i's address under writer i's enable and are read at
\* the addresses of the other writers, each other writer exactly once and
\* never writer i itself, all within 0..W-1.
C13_RelayAddresses ==
    (kind = XOR /\ nbuilds >= 1) =>
        LET W == Len(write_ports)
        IN \A index \in 0..(W - 1) :
              /\ Cardinality(RelaysOf(topo, index)) = W - 1
              /\ \A n \in RelaysOf(topo, index) :
                    /\ topo.relays[n].waddr = index
                    /\ topo.relays[n].wen = index
                    /\ topo.relays[n].raddr \in 0..(W - 1)
                    /\ topo.relays[n].raddr # index
              /\ \A j \in (0..(W - 1)) \ {index} :
                    Cardinality({n \in RelaysOf(topo, index) :
                                    topo.relays[n].raddr = j}) = 1

\* A design with three write ports has been built: the relay memories of the
\* middle one are read at the addresses of the first and of the last.
C13_Witness ==
    /\ kind = XOR /\ nbuilds >= 1 /\ Len(write_ports) = 3
    /\ {topo.relays[n].raddr : n \in RelaysOf(topo, 1)} = {0, 2}

\* ======================================================= clocked behaviour
Addr == 0..(SimDepth - 1)
Data == 0..(2 ^ DataWidth - 1)
Inits == [Addr -> Data]

\* a ^ b on DataWidth-bit values.
RECURSIVE Xor(_, _)
Xor(a, b) ==
    IF a = 0 THEN b
    ELSE IF b = 0 THEN a
    ELSE ((a + b) % 2) + 2 * Xor(a \div 2, b \div 2)

\* ------------------------------ amaranth.lib.memory.Memory, one cycle
\* The write port: an enabled write commits data at addr on the clock edge.
MemWrite(content, en, addr, data) ==
    IF en THEN [content EXCEPT ![addr] = data] ELSE content

\* The synchronous read port, transparent for no write port: on the clock edge
\* an enabled port latches the row as it was before the edge.
MemRead(content, reg, en, addr) == IF en THEN content[addr] ELSE reg

\* ------------------------------------------- MultiReadMemory, one cycle
\* Names of the memories of a MultiReadMemory built as banks.
BankNames(tag, index, banks) == {<<tag, index, k - 1>> : k \in 1..Len(banks)}

BankDriveReadAddr(b, win, rin) ==
    [we |-> win[b.wen].en, wa |-> rin[b.raddr].addr, wd |-> win[b.wdata].data,
     re |-> rin[b.ren].en, ra |-> rin[b.raddr].addr]

BankDriveReadEn(b, win, rin) ==
    [we |-> rin[b.ren].en, wa |-> win[b.waddr].addr, wd |-> win[b.wdata].data,
     re |-> rin[b.ren].en, ra |-> rin[b.raddr].addr]

\* The signals MultiReadMemory.elaborate drives on bank b: win[p] are the
\* inputs of write port p, rin[p] those of read port p.
BankDrive(b, win, rin) ==
    [we |-> win[b.wen].en, wa |-> win[b.waddr].addr, wd |-> win[b.wdata].data,
     re |-> rin[b.ren].en, ra |-> rin[b.raddr].addr]

\* data of read port p: the registered output of the bank wired to it, 0 when
\* no bank drives it.
PortData(tag, index, banks, r, p) ==
    LET drv == {k \in 1..Len(banks) : banks[k].rdata = p}
    IN IF drv = {} THEN 0 ELSE r[<<tag, index, (CHOOSE k \in drv : TRUE) - 1>>]

\* ---------------------------------------- MultiportXORMemory, one cycle
RelayName(m) == <<"relay", m.name[1], m.name[2]>>

\* The value of one operand of a write_xors / read_xors expression.
TermVal(tp, r, win, tm) ==
    IF tm.t = "data" THEN win[tm.a].data
    ELSE IF tm.t = "relay" THEN r[<<"relay", tm.a, tm.b>>]
    ELSE IF tm.t = "rep" THEN PortData("rep", tm.a, tp.blocks[tm.a + 1].banks, r, tm.b)
    ELSE 0

RECURSIVE ExprVal(_, _, _, _)
ExprVal(tp, r, win, expr) ==
    IF expr = {} THEN 0
    ELSE LET tm == CHOOSE x \in expr : TRUE
         IN Xor(TermVal(tp, r, win, tm), ExprVal(tp, r, win, expr \ {tm}))

RelayDriveOtherEn(tp, r, win, m) ==
    [we |-> win[m.raddr].en, wa |-> win[m.waddr].addr,
     wd |-> ExprVal(tp, r, win, m.wdata),
     re |-> TRUE, ra |-> win[m.raddr].addr]

\* The signals elaborate drives on relay memory m.
RelayDrive(tp, r, win, m) ==
    [we |-> win[m.wen].en, wa |-> win[m.waddr].addr,
     wd |-> ExprVal(tp, r, win, m.wdata),
     re |-> TRUE, ra |-> win[m.raddr].addr]

BlockWinAlways(tp, r, win, blk) ==
    [p \in {0} |-> [en |-> TRUE, addr |-> win[blk.waddr].addr,
                    data |-> ExprVal(tp, r, win, blk.wdata)]]

\* The inputs elaborate drives on the ports of read_block blk: its one write
\* port and its read ports, which are always enabled.
BlockWin(tp, r, win, blk) ==
    [p \in {0} |-> [en |-> win[blk.wen].en, addr |-> win[blk.waddr].addr,
                    data |-> ExprVal(tp, r, win, blk.wdata)]]

BlockRin(rin, blk) ==
    [p \in 0..(Len(blk.raddr) - 1) |-> [en |-> TRUE, addr |-> rin[blk.raddr[p + 1]].addr]]

\* data of logical read port k (0-based).
ReadData(tp, r, k) ==
    IF kind = MRM THEN PortData("bank", 0, tp.banks, r, k)
    ELSE ExprVal(tp, r, << >>, tp.outs[k + 1])

\* ---------------------------------------------------- the whole design
Names(tp) ==
    BankNames("bank", 0, tp.banks)
      \cup {RelayName(tp.relays[n]) : n \in 1..Len(tp.relays)}
      \cup UNION {BankNames("rep", x - 1, tp.blocks[x].banks) : x \in 1..Len(tp.blocks)}

\* What is driven on the memory called nm in this cycle.
Drive(tp, r, win, rin, nm) ==
    IF nm[1] = "bank" THEN BankDrive(tp.banks[nm[3] + 1], win, rin)
    ELSE IF nm[1] = "relay"
    THEN RelayDrive(tp, r, win,
             tp.relays[CHOOSE n \in 1..Len(tp.relays) : RelayName(tp.relays[n]) = nm])
    ELSE LET blk == tp.blocks[nm[2] + 1]
         IN BankDrive(blk.banks[nm[3] + 1], BlockWin(tp, r, win, blk), BlockRin(rin, blk))

\* The writers that commit to address a in this cycle.
Committing(win, a) == {j \in DOMAIN win : win[j].en /\ win[j].addr = a}

\* One clock cycle with write-port inputs win and read-port inputs rin.
Cycle(win, rin) ==
    /\ ticks < MaxTicks
    /\ ticks' = ticks + 1
    /\ cells' = [nm \in Names(topo) |->
                   LET d == Drive(topo, regs, win, rin, nm)
                   IN MemWrite(cells[nm], d.we, d.wa, d.wd)]
    /\ regs' = [nm \in Names(topo) |->
                   LET d == Drive(topo, regs, win, rin, nm)
                   IN MemRead(cells[nm], regs[nm], d.re, d.ra)]
    /\ ref' = [a \in Addr |->
                 IF Committing(win, a) = {} THEN ref[a]
                 ELSE <<win[CHOOSE j \in Committing(win, a) : TRUE].data>>]
    /\ clean' = (clean /\ \A a \in Addr : Cardinality(Committing(win, a)) <= 1)
    /\ committers' = committers \cup {j \in DOMAIN win : win[j].en}
    /\ expect' = [k \in DOMAIN rin |->
                    IF rin[k].en THEN ref[rin[k].addr] ELSE expect[k]]
    /\ UNCHANGED <<read_ports, write_ports, frozen, call, result, serial, topo, nbuilds>>
    /\ UNCHANGED objvars
    /\ UNCHANGED clickvars

\* The inputs of a write port: a disabled port's data is left at 0.
WriteInputs ==
    {[en |-> TRUE, addr |-> a, data |-> v] : a \in Addr, v \in Data}
      \cup {[en |-> FALSE, addr |-> a, data |-> 0] : a \in Addr}

\* The inputs of a read port of a MultiReadMemory: a disabled port's address
\* is left at 0.
ReadInputs ==
    {[en |-> TRUE, addr |-> a] : a \in Addr} \cup {[en |-> FALSE, addr |-> 0]}

\* The inputs of a read port of a MultiportXORMemory, whose en is not wired.
XorReadInputs == {[en |-> TRUE, addr |-> a] : a \in Addr}

\* A clock cycle of an elaborated MultiReadMemory.
TickRead ==
    /\ kind = MRM
    /\ \E win \in [0..(Len(write_ports) - 1) -> WriteInputs],
          rin \in [0..(Len(read_ports) - 1) -> ReadInputs] :
         /\ Cycle(win, rin)
         /\ lastw' = win /\ prevw' = lastw /\ lastr' = rin

\* A clock cycle of an elaborated MultiportXORMemory.
TickXor ==
    /\ kind = XOR
    /\ ticks < XorTicks
    /\ \E win \in [0..(Len(write_ports) - 1) -> WriteInputs],
          rin \in [0..(Len(read_ports) - 1) -> XorReadInputs] :
         /\ Cycle(win, rin)
         /\ lastw' = win /\ lastr' = rin
         /\ UNCHANGED prevw

\* The state after k = kind is constructed with initial content c, nw write
\* ports and nr read ports are requested, and elaborate has run.
Built(k, c, nw, nr) ==
    /\ kind = k /\ depth = SimDepth /\ init = c
    /\ write_ports = [p \in 1..nw |-> WritePort(p - 1, SimDepth)]
    /\ read_ports = [p \in 1..nr |-> ReadPort(nw + p - 1, SimDepth)]
    /\ serial = nw + nr
    /\ frozen = TRUE /\ call = "elaborate" /\ result = "ok" /\ nbuilds = 1
    /\ topo = Elaborate(k, read_ports, write_ports, SimDepth)
    /\ cells = [nm \in Names(topo) |-> c]
    /\ regs = [nm \in Names(topo) |-> 0]
    /\ ticks = 0
    /\ ref = [a \in Addr |-> << >>]
    /\ expect = [p \in 0..(nr - 1) |-> << >>]
    /\ clean = TRUE /\ committers = {}
    /\ lastw = << >> /\ prevw = << >> /\ lastr = << >>
    /\ NoClick

InitRead ==
    \E c \in Inits, nw \in 0..1, nr \in 0..SimReaders : Built(MRM, c, nw, nr)

InitXor ==
    \E c \in Inits, nw \in 1..XorWriters, nr \in 1..XorReaders : Built(XOR, c, nw, nr)

NextRead == TickRead
NextXor == TickXor

SpecRead == InitRead /\ [][NextRead]_vars
SpecXor == InitXor /\ [][NextXor]_vars

\* ======================================= properties of the clocked behaviour
\* C2: on a MultiReadMemory with one write port and R >= 1 read ports, after
\* any earlier writes, a write of V at address A enabled in one cycle makes
\* every read port enabled at address A in the next cycle return V; every
\* enabled read returns the value last committed at its address.
C2_ReadAfterWrite ==
    (kind = MRM /\ Len(write_ports) = 1 /\ Len(read_ports) >= 1 /\ ticks >= 1) =>
        \A k \in DOMAIN lastr :
            lastr[k].en =>
                /\ (ticks >= 2 /\ prevw[0].en /\ prevw[0].addr = lastr[k].addr)
                      => ReadData(topo, regs, k) = prevw[0].data
                /\ expect[k] # << >> => ReadData(topo, regs, k) = expect[k][1]

\* Two read ports have read, in the cycle after it was written, a value that
\* replaced an earlier written one.
C2_Witness ==
    /\ kind = MRM /\ Len(write_ports) = 1 /\ Len(read_ports) = 2 /\ ticks = 3
    /\ prevw[0].en /\ prevw[0].data = 1 /\ init[prevw[0].addr] = 1
    /\ \A k \in DOMAIN lastr : lastr[k].en /\ lastr[k].addr = prevw[0].addr
    /\ \A k \in DOMAIN lastr : ReadData(topo, regs, k) = 1
    /\ ~lastw[0].en

\* C1: a MultiportXORMemory behaves as an ideal multi-port store: as long as
\* no two writers have committed to one address in one cycle, every read of
\* an address returns the value last committed to it by any writer.
C1_IdealStore ==
    (kind = XOR /\ clean) =>
        \A k \in DOMAIN expect :
            expect[k] # << >> => ReadData(topo, regs, k) = expect[k][1]

\* C3: on a MultiportXORMemory on which exactly one writer has ever committed,
\* every read of an address returns the value that writer committed to it
\* last, whichever writer it is.
C3_SingleWriter ==
    (kind = XOR /\ Cardinality(committers) = 1) =>
        \A k \in DOMAIN expect :
            expect[k] # << >> => ReadData(topo, regs, k) = expect[k][1]

\* The writer that owns the memory called nm of a MultiportXORMemory.
Owner(nm) == nm[2]

\* C14: in a built MultiportXORMemory every memory has one writer: its write
\* address, data and enable come from the write port that owns it, and in
\* every cycle, whatever the other writers do, a row of a memory changes only
\* if the owner's enable is high and the row is at the owner's address.
C14_OneWriterPerBank ==
    [][kind = XOR =>
          /\ \A n \in 1..Len(topo.relays) :
                /\ topo.relays[n].wen = topo.relays[n].name[1]
                /\ topo.relays[n].waddr = topo.relays[n].name[1]
          /\ \A x \in 1..Len(topo.blocks) :
                /\ topo.blocks[x].wen = x - 1 /\ topo.blocks[x].waddr = x - 1
                /\ \A k \in 1..Len(topo.blocks[x].banks) :
                      /\ topo.blocks[x].banks[k].wen = 0
                      /\ topo.blocks[x].banks[k].waddr = 0
                      /\ topo.blocks[x].banks[k].wdata = 0
          /\ \A nm \in Names(topo) : \A a \in Addr :
                cells'[nm][a] # cells[nm][a]
                   => (lastw'[Owner(nm)].en /\ lastw'[Owner(nm)].addr = a)]_vars

\* Two writers have committed in one cycle, to different addresses, and each
\* changed its own relay memory.
C14_Witness ==
    /\ kind = XOR /\ Len(write_ports) = 2 /\ ticks = 1
    /\ lastw[0].en /\ lastw[1].en /\ lastw[0].addr # lastw[1].addr
    /\ cells[<<"relay", 0, 0>>][lastw[0].addr] # init[lastw[0].addr]
    /\ cells[<<"relay", 1, 0>>][lastw[1].addr] # init[lastw[1].addr]
    /\ cells[<<"relay", 0, 0>>][lastw[1].addr] = init[lastw[1].addr]

\* The XOR over the writers i < n of the output of read port k of read block i.
RECURSIVE XorReps(_, _, _)
XorReps(r, n, k) ==
    IF n = 0 THEN 0 ELSE Xor(r[<<"rep", n - 1, k>>], XorReps(r, n - 1, k))

\* C16: the data of logical read port k of a MultiportXORMemory is the XOR,
\* over all writers i, of the output of read port k of writer i's read block,
\* and that output is the row of the read block at logical read port k's
\* address.
C16_ReadXor ==
    [][kind = XOR =>
          \A k \in 0..(Len(read_ports) - 1) :
             /\ ReadData(topo', regs', k) = XorReps(regs', Len(write_ports), k)
             /\ \A i \in 0..(Len(write_ports) - 1) :
                   regs'[<<"rep", i, k>>] = cells[<<"rep", i, k>>][lastr'[k].addr]]_vars

\* Both read blocks of a two-writer design output 1 and the read port returns 0.
C16_Witness ==
    /\ kind = XOR /\ Len(write_ports) = 2 /\ ticks >= 1
    /\ regs[<<"rep", 0, 0>>] = 1 /\ regs[<<"rep", 1, 0>>] = 1
    /\ ReadData(topo, regs, 0) = 0

\* C17: as long as no write has been committed, a read at address A returns
\* init[A], on MultiReadMemory and on MultiportXORMemory with any number of
\* writers W >= 1.
C17_InitialContent ==
    (Len(write_ports) >= 1 /\ committers = {} /\ ticks >= 1) =>
        \A k \in DOMAIN lastr :
            lastr[k].en => ReadData(topo, regs, k) = init[lastr[k].addr]

\* The value the memories of a MultiportXORMemory hold for reader k at
\* address a: the XOR over the writers of the rows of their read blocks.
RECURSIVE Stored(_, _, _, _)
Stored(c, n, k, a) ==
    IF n = 0 THEN 0 ELSE Xor(c[<<"rep", n - 1, k>>][a], Stored(c, n - 1, k, a))

\* C18: on a MultiportXORMemory a cycle in which no writer commits at address
\* B leaves the value every reader obtains for B unchanged, whatever is
\* committed at other addresses, and a cycle in which no writer's enable is
\* high leaves the content of every memory unchanged.
C18_Frame ==
    [][kind = XOR =>
          /\ \A b \in Addr :
                Committing(lastw', b) = {} =>
                    \A k \in 0..(Len(read_ports) - 1) :
                        Stored(cells', Len(write_ports), k, b)
                            = Stored(cells, Len(write_ports), k, b)
          /\ (\A j \in DOMAIN lastw' : ~lastw'[j].en) => cells' = cells]_vars

\* One writer of two has committed at an address and changed the value
\* stored there, and the value at the other address is as it was initially.
C18_Witness ==
    /\ kind = XOR /\ Len(write_ports) = 2 /\ ticks = 1
    /\ lastw[1].en /\ ~lastw[0].en
    /\ Stored(cells, 2, 0, lastw[1].addr) # 0
    /\ \A a \in Addr : init[a] = 0

\* C15: in a built MultiReadMemory with one write port all memories hold the
\* same content in every reachable state, whatever the read ports do.
C15_ReplicasEqual ==
    (kind = MRM /\ Len(write_ports) = 1) =>
        \A nm \in Names(topo) : \A other \in Names(topo) : cells[nm] = cells[other]

\* Two replicas hold a content that differs from init, after a cycle in which
\* the two read ports did different things.
C15_Witness ==
    /\ kind = MRM /\ Len(write_ports) = 1 /\ Len(read_ports) = 2 /\ ticks >= 2
    /\ lastr[0].en /\ ~lastr[1].en
    /\ cells[<<"bank", 0, 0>>] # init
    /\ cells[<<"bank", 0, 1>>] = cells[<<"bank", 0, 0>>]

\* C19: MultiReadMemory.elaborate instantiates one memory per read port if a
\* write port has been requested and none otherwise; with no write port the
\* data of every read port stays undriven (0) whatever init holds, and with a
\* write port but no read port there is no memory to store what is written.
C19_BanksNeedWriter ==
    kind = MRM =>
        /\ BankCount(topo) = (IF write_ports # << >> THEN Len(read_ports) ELSE 0)
        /\ write_ports = << >> =>
              /\ Names(topo) = {}
              /\ \A k \in 0..(Len(read_ports) - 1) : ReadData(topo, regs, k) = 0
        /\ read_ports = << >> => (Names(topo) = {} /\ DOMAIN cells = {})

\* An enabled read port of a memory without write port returns 0 from an
\* address whose initial value is 1.
C19_Witness ==
    /\ kind = MRM /\ write_ports = << >> /\ Len(read_ports) = 2 /\ ticks >= 1
    /\ lastr[0].en /\ init[lastr[0].addr] = 1
    /\ ReadData(topo, regs, 0) = 0

\* ================================================================= ClickIn
CLICK == "ClickIn"

\* The values of dat.
ClickData == 0..(2 ^ ClickWidth - 1)

\* The condition of the m.If that sets get_ready, as a level detector.
EdgeLevel(b1, b2) == b1

\* The condition of the m.If that sets get_ready: ~btn2 & btn1.
Edge(b1, b2) == ~b2 /\ b1

\* Whether the body of method get runs in a cycle: only if the method is ready
\* and a caller requests it.
GetRuns(ready, req) == ready /\ req

\* One clock cycle of an elaborated ClickIn with inputs btn and dat, in which
\* a caller requests get or not. The assignments of the m.If come after the
\* one in the method body and override it.
ClickCycle(btn, dat, req) ==
    LET run == GetRuns(get_ready, req)
        edge == Edge(btn1, btn2)
    IN /\ btn1' = btn
       /\ btn2' = btn1
       /\ dat1' = dat
       /\ get_ready' = (IF edge THEN TRUE ELSE IF run THEN FALSE ELSE get_ready)
       /\ get_data' = (IF edge THEN dat1 ELSE get_data)
       /\ hist' = Append(hist, [btn1 |-> btn1, btn2 |-> btn2, dat1 |-> dat1,
                                run |-> run,
                                ret |-> IF run THEN get_data ELSE 0])

TickClick ==
    /\ kind = CLICK
    /\ Len(hist) < ClickTicks
    /\ \E btn \in BOOLEAN, dat \in ClickData, req \in BOOLEAN :
         ClickCycle(btn, dat, req)
    /\ UNCHANGED <<read_ports, write_ports, frozen, call, result, serial, topo, nbuilds>>
    /\ UNCHANGED objvars
    /\ UNCHANGED simvars

\* An elaborated ClickIn at reset.
InitClick ==
    /\ kind = CLICK /\ depth = 0 /\ init = << >>
    /\ read_ports = << >> /\ write_ports = << >> /\ frozen = FALSE
    /\ call = "elaborate" /\ result = "ok" /\ serial = 0
    /\ topo = NoTopo /\ nbuilds = 0
    /\ NoSim
    /\ NoClick

NextClick == TickClick

SpecClick == InitClick /\ [][NextClick]_vars

\* The cycles up to cycle n in which a rising edge was detected.
EdgesUpTo(n) == {c \in 1..n : hist[c].btn1 /\ ~hist[c].btn2}

\* The last of a non-empty set of cycles.
Latest(cs) == CHOOSE c \in cs : \A other \in cs : other <= c

\* C20: get is ready exactly if a rising edge (btn1 high, btn2 low) has been
\* detected in some cycle and get has not run in a later cycle, so readiness
\* stays until get runs and a run in the cycle of an edge does not clear it;
\* get runs only when ready, and what it returns, like get_data afterwards, is
\* dat1 of the latest cycle with a detected edge, a later press replacing an
\* unconsumed earlier one.
C20_ClickGet ==
    kind = CLICK =>
        LET n == Len(hist)
        IN /\ get_ready <=>
                \E e \in EdgesUpTo(n) : \A c \in (e + 1)..n : ~hist[c].run
           /\ EdgesUpTo(n) # {} => get_data = hist[Latest(EdgesUpTo(n))].dat1
           /\ \A c \in 1..n :
                hist[c].run =>
                    /\ EdgesUpTo(c - 1) # {}
                    /\ \A later \in (Latest(EdgesUpTo(c - 1)) + 1)..(c - 1) :
                          ~hist[later].run
                    /\ hist[c].ret = hist[Latest(EdgesUpTo(c - 1))].dat1

\* A first press was latched and not consumed; get then ran in the cycle in
\* which a second press with another dat was detected: it returned the first
\* press's dat, stays ready, and now holds the second press's dat.
C20_Witness ==
    /\ kind = CLICK
    /\ \E c \in 1..Len(hist) :
         /\ c = Len(hist)
         /\ hist[c].run /\ hist[c].btn1 /\ ~hist[c].btn2
         /\ hist[c].ret # hist[c].dat1
         /\ get_ready /\ get_data = hist[c].dat1

====
